---- MODULE Spec2Model ----
\* Model of the discussion/voting ledger canister
\* (src/icp_rust_boilerplate_backend/src/lib.rs).
\*
\* State: the three StableBTreeMap tables, the ID_COUNTER cell, the IC clock.
\* Every #[ic_cdk::update] / #[ic_cdk::query] entry point is one action; the
\* host runs each call to completion, so an action is a whole call.
\*
\* u64 representation: a u64 value v is represented by the integer r with
\* r = v for small v and r = v - 2^64 for v close to 2^64 (its signed residue),
\* so that wrapping +1 / -1 on u64 is plain +1 / -1 on the representative:
\* U64_MAX is represented by -1.
EXTENDS Integers, Sequences, FiniteSets, TLC

\* ---------------------------------------------------------------- bounds
MaxId == 4
MaxTime == 0

Usernames == {"", "alice", "Anonymous"}
Topics == {"", "t1", "t2"}
VoteTypes == {"Upvote", "Downvote"}
DiscussionIds == 0..(MaxId - 1)
Times == 0..MaxTime

\* ---------------------------------------------------------------- results
Ok == "Ok"
Trap == "Trap"
ErrUsernameRequired == "Username is required"
ErrAlreadyExists == "Username already exists"
ErrTopicRequired == "Topic is required"
ErrNotRegistered == "User is not registered"
ErrNewTopicEmpty == "New topic cannot be empty"
ErrDiscussionNotFound == "Discussion not found"
ErrForbidden == "Only the creator can edit the discussion"
ErrAlreadyVoted == "User has already voted on this discussion"
ErrVoteNotFound == "Vote not found"
ErrUserNotFound == "User not found"
Anonymous == "Anonymous"

VARIABLES
    id_counter,       \* ID_COUNTER cell
    users,            \* USERS_STORAGE: key -> User
    discussions,      \* DISCUSSIONS_STORAGE: key -> Discussion
    votes,            \* VOTES_STORAGE: key -> Vote
    now,              \* ic_cdk::api::time() when last read, non-decreasing
    build,            \* build profile, as far as the run has shown it (see Builds)
    last,             \* the call just executed, with its result
    issued,           \* history: ids handed out, in order
    creator,          \* history: discussion id -> username passed to create_discussion
    deleted,          \* history: some delete_user call has succeeded
    call              \* the call in progress, write by write (SpecWrites); Idle between calls

vars == <<id_counter, users, discussions, votes, now, build, last,
          issued, creator, deleted, call>>

tables == <<id_counter, users, discussions, votes>>
history == <<issued, creator, deleted>>

\* ---------------------------------------------------------------- helpers
\* no call is in progress: the host runs one call at a time
Idle == [op |-> "idle"]

U64_MAX == -1

Min(S) == CHOOSE x \in S : \A y \in S : x <= y

\* StableBTreeMap::insert
Insert(m, k, v) == [x \in (DOMAIN m) \cup {k} |-> IF x = k THEN v ELSE m[x]]

\* StableBTreeMap::remove
Remove(m, k) == [x \in (DOMAIN m) \ {k} |-> m[x]]

RemoveAll(m, ks) == [x \in (DOMAIN m) \ ks |-> m[x]]

\* the entry point just called and what it returned
Returned(op, result) == [op |-> op, result |-> result]

\* a query just called, with the payload of its Ok
ReturnedValue(op, value) == [op |-> op, result |-> Ok, value |-> value]

\* time() as read by a call that stamps a record: the IC clock never goes back
Time(t) == t \in now..(IF now < MaxTime THEN now + 1 ELSE now)

\* The crate is built either with overflow checks (u64 += 1 / -= 1 panics on
\* overflow, the call traps and the host discards every write of the call) or
\* without (the arithmetic wraps). The build is fixed for a run; it is "any"
\* until the first overflow shows which one it is.
Builds(b) == IF b = "any" THEN {"checked", "wrapping"} ELSE {b}

\* counter.borrow_mut().set(current_value + 1): the new cell value
NextCounterStuck(current_value) == current_value
NextCounter(current_value) == current_value + 1

\* Cell::set returns the previous value: that is the id handed out
AllocatedIdIsNewValue(current_value) == current_value + 1
AllocatedId(current_value) == current_value

is_user_registered_never(username) == FALSE
is_user_registered_any_user(username) == DOMAIN users # {}
is_user_registered(username) ==
    \E k \in DOMAIN users : users[k].username = username

user_has_voted_by_vote_id(username, discussion_id) ==
    \E k \in DOMAIN votes :
        votes[k].by = username /\ votes[k].id = discussion_id
user_has_voted(username, discussion_id) ==
    \E k \in DOMAIN votes :
        votes[k].by = username /\ votes[k].discussion_id = discussion_id

\* ---------------------------------------------------------------- Init
Init ==
    /\ id_counter = 0
    /\ users = <<>>
    /\ discussions = <<>>
    /\ votes = <<>>
    /\ now = 0
    /\ build = "any"
    /\ last = Returned("init", Ok)
    /\ issued = <<>>
    /\ creator = <<>>
    /\ deleted = FALSE
    /\ call = Idle

\* ---------------------------------------------------------------- register_user
register_user(username, t) ==
    /\ call = Idle
    /\ call' = call
    /\ UNCHANGED <<build, discussions, votes, creator, deleted>>
    /\ IF username = ""
       THEN /\ last' = Returned("register_user", ErrUsernameRequired)
            /\ UNCHANGED <<id_counter, users, issued, now>>
       ELSE IF is_user_registered(username)
       THEN /\ last' = Returned("register_user", ErrAlreadyExists)
            /\ UNCHANGED <<id_counter, users, issued, now>>
       ELSE /\ id_counter < MaxId
            /\ Time(t)
            /\ now' = t
            /\ LET id == AllocatedId(id_counter)
                   new_user == [username |-> username, id |-> id, created_at |-> t]
               IN  /\ id_counter' = NextCounter(id_counter)
                   /\ issued' = Append(issued, id)
                   /\ users' = Insert(users, id, new_user)
            /\ last' = Returned("register_user", Ok)

\* ---------------------------------------------------------------- create_discussion
create_discussion(topic, username, t) ==
    /\ call = Idle
    /\ call' = call
    /\ UNCHANGED <<build, users, votes, deleted>>
    /\ IF topic = ""
       THEN /\ last' = Returned("create_discussion", ErrTopicRequired)
            /\ UNCHANGED <<id_counter, discussions, issued, creator, now>>
       ELSE IF ~is_user_registered(username)
       THEN /\ last' = Returned("create_discussion", ErrNotRegistered)
            /\ UNCHANGED <<id_counter, discussions, issued, creator, now>>
       ELSE /\ id_counter < MaxId
            /\ Time(t)
            /\ now' = t
            /\ LET id == AllocatedId(id_counter)
                   discussion == [id |-> id, topic |-> topic, created_by |-> username,
                                  created_at |-> t, upvotes |-> 0, downvotes |-> 0]
               IN  /\ id_counter' = NextCounter(id_counter)
                   /\ issued' = Append(issued, id)
                   /\ discussions' = Insert(discussions, id, discussion)
                   /\ creator' = Insert(creator, id, username)
                   /\ last' = Returned("create_discussion", Ok)

\* ---------------------------------------------------------------- edit_discussion
WithTopicAndResetCounts(discussion, new_topic) ==
    [discussion EXCEPT !.topic = new_topic, !.upvotes = 0, !.downvotes = 0]
WithTopic(discussion, new_topic) == [discussion EXCEPT !.topic = new_topic]

edit_discussion(discussion_id, new_topic, username) ==
    /\ call = Idle
    /\ call' = call
    /\ UNCHANGED <<now, build, id_counter, users, votes, history>>
    /\ IF new_topic = ""
       THEN /\ last' = Returned("edit_discussion", ErrNewTopicEmpty)
            /\ UNCHANGED discussions
       ELSE IF discussion_id \notin DOMAIN discussions
       THEN /\ last' = Returned("edit_discussion", ErrDiscussionNotFound)
            /\ UNCHANGED discussions
       ELSE IF discussions[discussion_id].created_by # username
       THEN /\ last' = Returned("edit_discussion", ErrForbidden)
            /\ UNCHANGED discussions
       ELSE /\ discussions' = Insert(discussions, discussion_id,
                                     WithTopic(discussions[discussion_id], new_topic))
            /\ last' = Returned("edit_discussion", Ok)

\* ---------------------------------------------------------------- vote_discussion
\* discussion.upvotes += 1 / discussion.downvotes += 1
Incremented(discussion, vote_type) ==
    IF vote_type = "Upvote"
    THEN [discussion EXCEPT !.upvotes = @ + 1]
    ELSE [discussion EXCEPT !.downvotes = @ + 1]

\* the counter a vote of this type is tallied in
Counter(discussion, vote_type) ==
    IF vote_type = "Upvote" THEN discussion.upvotes ELSE discussion.downvotes

vote_discussion(vote_type, discussion_id, username, t) ==
    /\ call = Idle
    /\ call' = call
    /\ UNCHANGED <<users, creator, deleted>>
    /\ IF ~is_user_registered(username)
       THEN /\ last' = Returned("vote_discussion", ErrNotRegistered)
            /\ UNCHANGED <<id_counter, votes, discussions, issued, build, now>>
       ELSE IF user_has_voted(username, discussion_id)
       THEN /\ last' = Returned("vote_discussion", ErrAlreadyVoted)
            /\ UNCHANGED <<id_counter, votes, discussions, issued, build, now>>
       ELSE /\ id_counter < MaxId
            /\ Time(t)
            /\ now' = t
            /\ LET id == AllocatedId(id_counter)
                   vote == [id |-> id, by |-> username, discussion_id |-> discussion_id,
                            vote_type |-> vote_type, created_at |-> t]
               IN  IF discussion_id \notin DOMAIN discussions
                   THEN \* Err after the counter and the Vote were written: both stay
                        /\ id_counter' = NextCounter(id_counter)
                        /\ issued' = Append(issued, id)
                        /\ votes' = Insert(votes, id, vote)
                        /\ UNCHANGED <<discussions, build>>
                        /\ last' = Returned("vote_discussion", ErrDiscussionNotFound)
                   ELSE IF Counter(discussions[discussion_id], vote_type) = U64_MAX
                   THEN \* += 1 overflows
                        \E b \in Builds(build) :
                            /\ build' = b
                            /\ IF b = "checked"
                               THEN /\ UNCHANGED <<id_counter, votes, discussions, issued>>
                                    /\ last' = Returned("vote_discussion", Trap)
                               ELSE /\ id_counter' = NextCounter(id_counter)
                                    /\ issued' = Append(issued, id)
                                    /\ votes' = Insert(votes, id, vote)
                                    /\ discussions' = Insert(discussions, discussion_id,
                                            Incremented(discussions[discussion_id], vote_type))
                                    /\ last' = Returned("vote_discussion", Ok)
                   ELSE /\ id_counter' = NextCounter(id_counter)
                        /\ issued' = Append(issued, id)
                        /\ votes' = Insert(votes, id, vote)
                        /\ discussions' = Insert(discussions, discussion_id,
                                                 Incremented(discussions[discussion_id], vote_type))
                        /\ build' = build
                        /\ last' = Returned("vote_discussion", Ok)

\* ---------------------------------------------------------------- remove_vote
\* discussion.upvotes -= 1 / discussion.downvotes -= 1
DecrementedSwapped(discussion, vote_type) ==
    IF vote_type = "Upvote"
    THEN [discussion EXCEPT !.downvotes = @ - 1]
    ELSE [discussion EXCEPT !.upvotes = @ - 1]
Decremented(discussion, vote_type) ==
    IF vote_type = "Upvote"
    THEN [discussion EXCEPT !.upvotes = @ - 1]
    ELSE [discussion EXCEPT !.downvotes = @ - 1]

\* iter().find(..): the first match in ascending key order
FoundVote(username, discussion_id) ==
    votes[Min({k \in DOMAIN votes :
                 votes[k].by = username /\ votes[k].discussion_id = discussion_id})]

\* remove_vote with the discussion looked up before the Vote is removed
remove_vote_lookup_first(discussion_id, username) ==
    /\ call = Idle
    /\ call' = call
    /\ UNCHANGED <<id_counter, users, history, now>>
    /\ IF ~is_user_registered(username)
       THEN /\ last' = Returned("remove_vote", ErrNotRegistered)
            /\ UNCHANGED <<votes, discussions, build>>
       ELSE IF ~user_has_voted(username, discussion_id)
       THEN /\ last' = Returned("remove_vote", ErrVoteNotFound)
            /\ UNCHANGED <<votes, discussions, build>>
       ELSE IF discussion_id \notin DOMAIN discussions
       THEN /\ last' = Returned("remove_vote", ErrDiscussionNotFound)
            /\ UNCHANGED <<votes, discussions, build>>
       ELSE LET vote == FoundVote(username, discussion_id)
            IN  /\ votes' = Remove(votes, vote.id)
                /\ discussions' = Insert(discussions, discussion_id,
                                         Decremented(discussions[discussion_id], vote.vote_type))
                /\ build' = build
                /\ last' = Returned("remove_vote", Ok)

remove_vote(discussion_id, username) ==
    /\ call = Idle
    /\ call' = call
    /\ UNCHANGED <<now, id_counter, users, history>>
    /\ IF ~is_user_registered(username)
       THEN /\ last' = Returned("remove_vote", ErrNotRegistered)
            /\ UNCHANGED <<votes, discussions, build>>
       ELSE IF ~user_has_voted(username, discussion_id)
       THEN /\ last' = Returned("remove_vote", ErrVoteNotFound)
            /\ UNCHANGED <<votes, discussions, build>>
       ELSE LET vote == FoundVote(username, discussion_id)
            IN  IF discussion_id \notin DOMAIN discussions
                THEN \* Err after the Vote was removed: it stays removed
                     /\ votes' = Remove(votes, vote.id)
                     /\ UNCHANGED <<discussions, build>>
                     /\ last' = Returned("remove_vote", ErrDiscussionNotFound)
                ELSE IF Counter(discussions[discussion_id], vote.vote_type) = 0
                THEN \* -= 1 overflows
                     \E b \in Builds(build) :
                         /\ build' = b
                         /\ IF b = "checked"
                            THEN /\ UNCHANGED <<votes, discussions>>
                                 /\ last' = Returned("remove_vote", Trap)
                            ELSE /\ votes' = Remove(votes, vote.id)
                                 /\ discussions' = Insert(discussions, discussion_id,
                                         Decremented(discussions[discussion_id], vote.vote_type))
                                 /\ last' = Returned("remove_vote", Ok)
                ELSE /\ votes' = Remove(votes, vote.id)
                     /\ discussions' = Insert(discussions, discussion_id,
                                              Decremented(discussions[discussion_id], vote.vote_type))
                     /\ build' = build
                     /\ last' = Returned("remove_vote", Ok)

\* ---------------------------------------------------------------- delete_user
\* the first User with this username in ascending key order
FoundUserId(username) == Min({k \in DOMAIN users : users[k].username = username})

AllVoteIds(username) == DOMAIN votes
VotesBy(username) == {k \in DOMAIN votes : votes[k].by = username}

AnonymizedByRemoval(username) ==
    [k \in {x \in DOMAIN discussions : discussions[x].created_by # username} |->
        discussions[k]]
NotAnonymized(username) == discussions

Anonymized(username) ==
    [k \in DOMAIN discussions |->
        IF discussions[k].created_by = username
        THEN [discussions[k] EXCEPT !.created_by = Anonymous]
        ELSE discussions[k]]

delete_user(username) ==
    /\ call = Idle
    /\ call' = call
    /\ UNCHANGED <<now, build, id_counter, issued, creator>>
    /\ IF ~is_user_registered(username)
       THEN /\ last' = Returned("delete_user", ErrUserNotFound)
            /\ UNCHANGED <<users, votes, discussions, deleted>>
       ELSE /\ users' = Remove(users, FoundUserId(username))
            /\ votes' = RemoveAll(votes, VotesBy(username))
            /\ discussions' = Anonymized(username)
            /\ deleted' = TRUE
            /\ last' = Returned("delete_user", Ok)

\* ---------------------------------------------------------------- queries
\* storage.borrow().iter().map(|(_, v)| v).collect(): the records in ascending key order
RECURSIVE InKeyOrder(_)
InKeyOrder(m) ==
    IF DOMAIN m = {}
    THEN <<>>
    ELSE LET k == Min(DOMAIN m) IN <<m[k]>> \o InKeyOrder(Remove(m, k))

get_discussions ==
    /\ call = Idle
    /\ call' = call
    /\ now' = now
    /\ last' = ReturnedValue("get_discussions", InKeyOrder(discussions))
    /\ UNCHANGED <<tables, build, history>>

get_users ==
    /\ call = Idle
    /\ call' = call
    /\ now' = now
    /\ last' = ReturnedValue("get_users", InKeyOrder(users))
    /\ UNCHANGED <<tables, build, history>>

\* Ok((discussion.upvotes, discussion.downvotes))
TallySwapped(discussion) == <<discussion.downvotes, discussion.upvotes>>
Tally(discussion) == <<discussion.upvotes, discussion.downvotes>>

get_vote_count(discussion_id) ==
    /\ call = Idle
    /\ call' = call
    /\ now' = now
    /\ last' = IF discussion_id \in DOMAIN discussions
               THEN ReturnedValue("get_vote_count", Tally(discussions[discussion_id]))
               ELSE Returned("get_vote_count", ErrDiscussionNotFound)
    /\ UNCHANGED <<tables, build, history>>

\* ---------------------------------------------------------------- specification
Next ==
    \/ \E u \in Usernames, t \in Times : register_user(u, t)
    \/ \E tp \in Topics, u \in Usernames, t \in Times : create_discussion(tp, u, t)
    \/ \E d \in DiscussionIds, tp \in Topics, u \in Usernames : edit_discussion(d, tp, u)
    \/ \E vt \in VoteTypes, d \in DiscussionIds, u \in Usernames, t \in Times :
          vote_discussion(vt, d, u, t)
    \/ \E d \in DiscussionIds, u \in Usernames : remove_vote(d, u)
    \/ \E u \in Usernames : delete_user(u)
    \/ get_discussions
    \/ get_users
    \/ \E d \in DiscussionIds : get_vote_count(d)

Spec == Init /\ [][Next]_vars

\* ---------------------------------------------------------------- the calls, write by write
\* ID_COUNTER .set(value)
Set(value) == [table |-> "ID_COUNTER", write |-> "set", value |-> value]
\* storage.borrow_mut().insert(key, value)
InsertInto(table, key, value) ==
    [table |-> table, write |-> "insert", key |-> key, value |-> value]
\* storage.borrow_mut().remove(&key)
RemoveFrom(table, key) == [table |-> table, write |-> "remove", key |-> key]

\* the keys a scan collects: ascending key order
RECURSIVE Ascending(_)
Ascending(keys) ==
    IF keys = {} THEN <<>> ELSE <<Min(keys)>> \o Ascending(keys \ {Min(keys)})

\* a call past the checks that precede its first write: the writes it still has to make, the result it
\* will give, and the state a trap rolls back to.  The reads between the writes
\* are of tables the call has not written yet, so they see the values of the
\* call's start.
Running(op, username, todo, result) ==
    [op |-> op, username |-> username, todo |-> todo, result |-> result,
     start |-> [id_counter |-> id_counter, users |-> users,
                discussions |-> discussions, votes |-> votes, issued |-> issued]]

\* the writes of vote_discussion with the count written before the Vote
vote_discussion_writes_count_first(vote, counted, panics) ==
    (IF counted /\ ~panics
     THEN <<InsertInto("DISCUSSIONS", vote.discussion_id,
                       Incremented(discussions[vote.discussion_id], vote.vote_type))>>
     ELSE <<>>)
    \o <<Set(NextCounter(id_counter)), InsertInto("VOTES", vote.id, vote)>>

\* the writes of vote_discussion past its checks, in program order; counted: the
\* discussion was found; panics: += 1 panicked before the last write
vote_discussion_writes(vote, counted, panics) ==
    <<Set(NextCounter(id_counter)), InsertInto("VOTES", vote.id, vote)>>
    \o (IF counted /\ ~panics
        THEN <<InsertInto("DISCUSSIONS", vote.discussion_id,
                          Incremented(discussions[vote.discussion_id], vote.vote_type))>>
        ELSE <<>>)

begin_vote_discussion(vote_type, discussion_id, username, t) ==
    /\ call = Idle
    /\ UNCHANGED <<tables, history>>
    /\ IF ~is_user_registered(username)
       THEN /\ last' = Returned("vote_discussion", ErrNotRegistered)
            /\ UNCHANGED <<call, build, now>>
       ELSE IF user_has_voted(username, discussion_id)
       THEN /\ last' = Returned("vote_discussion", ErrAlreadyVoted)
            /\ UNCHANGED <<call, build, now>>
       ELSE /\ id_counter < MaxId
            /\ last' = last
            /\ Time(t)
            /\ now' = t
            /\ LET vote == [id |-> AllocatedId(id_counter), by |-> username,
                            discussion_id |-> discussion_id,
                            vote_type |-> vote_type, created_at |-> t]
                   counted == discussion_id \in DOMAIN discussions
                   overflows ==
                       counted /\ Counter(discussions[discussion_id], vote_type) = U64_MAX
               IN  \E b \in (IF overflows THEN Builds(build) ELSE {build}) :
                       /\ build' = b
                       /\ call' = Running("vote_discussion", username,
                              vote_discussion_writes(vote, counted,
                                                     overflows /\ b = "checked"),
                              IF ~counted THEN ErrDiscussionNotFound
                              ELSE IF overflows /\ b = "checked" THEN Trap
                              ELSE Ok)

\* the writes of remove_vote past its checks, in program order
remove_vote_writes(vote, counted, panics) ==
    <<RemoveFrom("VOTES", vote.id)>>
    \o (IF counted /\ ~panics
        THEN <<InsertInto("DISCUSSIONS", vote.discussion_id,
                          Decremented(discussions[vote.discussion_id], vote.vote_type))>>
        ELSE <<>>)

begin_remove_vote(discussion_id, username) ==
    /\ call = Idle
    /\ UNCHANGED <<tables, history, now>>
    /\ IF ~is_user_registered(username)
       THEN /\ last' = Returned("remove_vote", ErrNotRegistered)
            /\ UNCHANGED <<call, build>>
       ELSE IF ~user_has_voted(username, discussion_id)
       THEN /\ last' = Returned("remove_vote", ErrVoteNotFound)
            /\ UNCHANGED <<call, build>>
       ELSE LET vote == FoundVote(username, discussion_id)
                counted == discussion_id \in DOMAIN discussions
                overflows ==
                    counted /\ Counter(discussions[discussion_id], vote.vote_type) = 0
            IN  \E b \in (IF overflows THEN Builds(build) ELSE {build}) :
                    /\ build' = b
                    /\ last' = last
                    /\ call' = Running("remove_vote", username,
                           remove_vote_writes(vote, counted, overflows /\ b = "checked"),
                           IF ~counted THEN ErrDiscussionNotFound
                           ELSE IF overflows /\ b = "checked" THEN Trap
                           ELSE Ok)

\* for vote_id in votes { storage_mut.remove(&vote_id) }
RemoveEach(keys) == [i \in 1..Len(keys) |-> RemoveFrom("VOTES", keys[i])]

\* for id in keys_to_update { remove(&id); created_by = "Anonymous"; insert(id, ..) }
RewriteEach(keys) ==
    [i \in 1..(2 * Len(keys)) |->
        IF i % 2 = 1
        THEN RemoveFrom("DISCUSSIONS", keys[(i + 1) \div 2])
        ELSE InsertInto("DISCUSSIONS", keys[i \div 2],
                        [discussions[keys[i \div 2]] EXCEPT !.created_by = Anonymous])]

\* the writes of delete_user past its check, in program order
delete_user_writes(username) ==
    <<RemoveFrom("USERS", FoundUserId(username))>>
    \o RemoveEach(Ascending(VotesBy(username)))
    \o RewriteEach(Ascending({k \in DOMAIN discussions :
                                 discussions[k].created_by = username}))

begin_delete_user(username) ==
    /\ call = Idle
    /\ UNCHANGED <<tables, history, now, build>>
    /\ IF ~is_user_registered(username)
       THEN /\ last' = Returned("delete_user", ErrUserNotFound)
            /\ call' = call
       ELSE /\ last' = last
            /\ call' = Running("delete_user", username, delete_user_writes(username), Ok)

\* what one write makes of a table
Written(m, table, w) ==
    IF w.table # table THEN m
    ELSE IF w.write = "insert" THEN Insert(m, w.key, w.value)
    ELSE Remove(m, w.key)

\* the running call makes its next write
write ==
    /\ call # Idle
    /\ call.todo # <<>>
    /\ LET w == Head(call.todo)
       IN  /\ id_counter' = IF w.table = "ID_COUNTER" THEN w.value ELSE id_counter
           /\ issued' = IF w.table = "ID_COUNTER"
                        THEN Append(issued, AllocatedId(id_counter))
                        ELSE issued
           /\ users' = Written(users, "USERS", w)
           /\ votes' = Written(votes, "VOTES", w)
           /\ discussions' = Written(discussions, "DISCUSSIONS", w)
    /\ call' = [call EXCEPT !.todo = Tail(@)]
    /\ UNCHANGED <<now, build, last, creator, deleted>>

\* the running call returns Ok or Err: its writes stay
reply ==
    /\ call # Idle
    /\ call.todo = <<>>
    /\ call.result # Trap
    /\ last' = Returned(call.op, call.result)
    /\ deleted' = (deleted \/ (call.op = "delete_user" /\ call.result = Ok))
    /\ call' = Idle
    /\ UNCHANGED <<tables, now, build, issued, creator>>

\* the running call panics: the host discards the writes of the call
trap ==
    /\ call # Idle
    /\ call.todo = <<>>
    /\ call.result = Trap
    /\ id_counter' = call.start.id_counter
    /\ users' = call.start.users
    /\ discussions' = call.start.discussions
    /\ votes' = call.start.votes
    /\ issued' = call.start.issued
    /\ last' = Returned(call.op, Trap)
    /\ call' = Idle
    /\ UNCHANGED <<now, build, creator, deleted>>

NextWrites ==
    \/ \E u \in Usernames, t \in Times : register_user(u, t)
    \/ \E tp \in Topics, u \in Usernames, t \in Times : create_discussion(tp, u, t)
    \/ \E d \in DiscussionIds, tp \in Topics, u \in Usernames : edit_discussion(d, tp, u)
    \/ \E vt \in VoteTypes, d \in DiscussionIds, u \in Usernames, t \in Times :
          begin_vote_discussion(vt, d, u, t)
    \/ \E d \in DiscussionIds, u \in Usernames : begin_remove_vote(d, u)
    \/ \E u \in Usernames : begin_delete_user(u)
    \/ write
    \/ reply
    \/ trap

SpecWrites == Init /\ [][NextWrites]_vars

\* ================================================================ properties
\* u64 reading of the representatives: b is a + 1 with no wrap-around
IsSucc(a, b) == a # U64_MAX /\ b = a + 1

\* number of live Vote records of one kind that name a discussion
LiveVotes(d, vote_type) ==
    Cardinality({k \in DOMAIN votes :
                    votes[k].discussion_id = d /\ votes[k].vote_type = vote_type})

\* the call of a step returned an Err
Failed(result) == result \notin {Ok, Trap}

\* ---------------------------------------------------------------- C1
\* C1: as long as no delete_user has succeeded, every stored discussion's
\* upvotes is the number of live Upvote records naming it, and its downvotes
\* the number of live Downvote records naming it.
C1_TallyEqualsLiveVotes ==
    ~deleted =>
        \A d \in DOMAIN discussions :
            /\ discussions[d].upvotes = LiveVotes(d, "Upvote")
            /\ discussions[d].downvotes = LiveVotes(d, "Downvote")

\* ---------------------------------------------------------------- C2
\* C2: no two live Vote records have the same (by, discussion_id) pair.
C2_OneVotePerPair ==
    \A j, k \in DOMAIN votes :
        (votes[j].by = votes[k].by /\ votes[j].discussion_id = votes[k].discussion_id)
            => j = k

\* a user was deleted, a user registered after that has a live vote, and the
\* second vote of that user on the same discussion was just refused
C2_Witness ==
    /\ deleted
    /\ last = Returned("vote_discussion", ErrAlreadyVoted)
    /\ \E k \in DOMAIN votes, j \in DOMAIN users :
          j > 0 /\ users[j].username = votes[k].by

\* ---------------------------------------------------------------- C3
UniqueUsernames ==
    \A j, k \in DOMAIN users : users[j].username = users[k].username => j = k

\* C3: no two live User records have the same username, and register_user with
\* a username that is registered returns "Username already exists" and changes
\* no table and not the counter.
C3_UniqueUsernames ==
    /\ []UniqueUsernames
    /\ [][last'.op = "register_user" =>
            \A u \in Usernames, t \in Times :
               (is_user_registered(u) /\ register_user(u, t))
                  => (last'.result = ErrAlreadyExists /\ UNCHANGED tables)]_vars

\* two users are registered and a registration under a taken name was just refused
C3_Witness ==
    /\ last = Returned("register_user", ErrAlreadyExists)
    /\ Cardinality(DOMAIN users) = 2

\* ---------------------------------------------------------------- C4
StrictlyIncreasing(seq) ==
    \A i, j \in 1..Len(seq) : i < j => seq[i] < seq[j]

\* every live record sits in one table only, under an id that was handed out
LiveIdsDistinct ==
    /\ DOMAIN users \cap DOMAIN discussions = {}
    /\ DOMAIN users \cap DOMAIN votes = {}
    /\ DOMAIN discussions \cap DOMAIN votes = {}
    /\ \A k \in DOMAIN users \cup DOMAIN discussions \cup DOMAIN votes :
          \E i \in 1..Len(issued) : issued[i] = k

\* C4: across register_user, create_discussion and vote_discussion each id
\* handed out is greater than every id handed out before, no two records got
\* the same id, and the counter never decreases.
C4_IdsStrictlyIncreasing ==
    /\ [](StrictlyIncreasing(issued) /\ LiveIdsDistinct)
    /\ [][/\ id_counter' >= id_counter
          /\ issued' # issued =>
                /\ Len(issued') = Len(issued) + 1
                /\ \A i \in 1..Len(issued) :
                      issued'[i] = issued[i] /\ issued[i] < issued'[Len(issued')]
                /\ id_counter' > issued'[Len(issued')]]_vars

\* ids were handed out to a user, a discussion and a vote, up to the bound
C4_Witness ==
    /\ Len(issued) = MaxId
    /\ users # <<>>
    /\ discussions # <<>>
    /\ votes # <<>>

\* ---------------------------------------------------------------- C5
\* C5: a call of register_user, create_discussion, edit_discussion,
\* vote_discussion, remove_vote or delete_user that returns an Err leaves the
\* three tables and the id counter as they were.
C5_FailureChangesNothing ==
    [][(/\ last'.op \in {"register_user", "create_discussion", "edit_discussion",
                         "vote_discussion", "remove_vote", "delete_user"}
        /\ Failed(last'.result))
            => UNCHANGED tables]_vars

\* ---------------------------------------------------------------- C6
\* C6: a discussion's topic changes only in a successful edit_discussion, and
\* every successful edit_discussion on d is issued with the username that was
\* passed to the create_discussion call that created d.
C6_OnlyCreatorEdits ==
    [][/\ last' = Returned("edit_discussion", Ok) =>
            \A d \in DiscussionIds, tp \in Topics, u \in Usernames :
               edit_discussion(d, tp, u) => u = creator[d]
       /\ \A d \in DOMAIN discussions :
            (d \in DOMAIN discussions' /\ discussions'[d].topic # discussions[d].topic)
                => last' = Returned("edit_discussion", Ok)]_vars

\* ---------------------------------------------------------------- C7
\* the step changed nothing but the topic of discussion d, which is now tp
OnlyTopicChanged(d, tp) ==
    /\ DOMAIN discussions' = DOMAIN discussions
    /\ \A e \in DOMAIN discussions : e # d => discussions'[e] = discussions[e]
    /\ discussions'[d].topic = tp
    /\ discussions'[d].id = discussions[d].id
    /\ discussions'[d].created_by = discussions[d].created_by
    /\ discussions'[d].created_at = discussions[d].created_at
    /\ discussions'[d].upvotes = discussions[d].upvotes
    /\ discussions'[d].downvotes = discussions[d].downvotes
    /\ UNCHANGED <<users, votes, id_counter>>

\* C7 as stated: a successful edit_discussion changes only the topic of that
\* discussion, and an edit_discussion by a username other than the stored
\* created_by returns "Only the creator can edit the discussion" and changes
\* nothing.
C7_EditFrame_AsStated ==
    [][last'.op = "edit_discussion" =>
          \A d \in DiscussionIds, tp \in Topics, u \in Usernames :
             /\ (last'.result = Ok /\ edit_discussion(d, tp, u))
                   => OnlyTopicChanged(d, tp)
             /\ (/\ d \in DOMAIN discussions
                 /\ discussions[d].created_by # u
                 /\ edit_discussion(d, tp, u))
                   => (last'.result = ErrForbidden /\ UNCHANGED tables)]_vars

\* C7 amended: a successful edit_discussion changes only the topic of that
\* discussion; an edit_discussion by a username other than the stored
\* created_by changes nothing, and returns "Only the creator can edit the
\* discussion" when new_topic is not empty ("New topic cannot be empty"
\* otherwise: the empty-topic check comes first).
C7_EditFrame ==
    [][last'.op = "edit_discussion" =>
          \A d \in DiscussionIds, tp \in Topics, u \in Usernames :
             /\ (last'.result = Ok /\ edit_discussion(d, tp, u))
                   => OnlyTopicChanged(d, tp)
             /\ (/\ d \in DOMAIN discussions
                 /\ discussions[d].created_by # u
                 /\ edit_discussion(d, tp, u))
                   => /\ UNCHANGED tables
                      /\ last'.result = IF tp = "" THEN ErrNewTopicEmpty ELSE ErrForbidden]_vars

\* an edit just succeeded on a ledger where some discussion has a vote counted
C7_Witness ==
    /\ last = Returned("edit_discussion", Ok)
    /\ \E d \in DOMAIN discussions : discussions[d].upvotes = 1
    /\ votes # <<>>

\* ---------------------------------------------------------------- C8
\* C8: a successful vote_discussion(vote_type, discussion_id, username) adds
\* exactly one Vote record {by, discussion_id, vote_type} under a fresh id,
\* increases the matching counter of that discussion by exactly one, and leaves
\* the other counter, every other discussion, every other vote and the Users
\* table unchanged.
C8_VoteEffect ==
    [][last' = Returned("vote_discussion", Ok) =>
        \A vt \in VoteTypes, d \in DiscussionIds, u \in Usernames, t \in Times :
          vote_discussion(vt, d, u, t) =>
             /\ \E id \in (DOMAIN votes') \ (DOMAIN votes) :
                   /\ \A i \in 1..Len(issued) : issued[i] # id
                   /\ DOMAIN votes' = DOMAIN votes \cup {id}
                   /\ votes'[id].id = id
                   /\ votes'[id].by = u
                   /\ votes'[id].discussion_id = d
                   /\ votes'[id].vote_type = vt
             /\ \A k \in DOMAIN votes : votes'[k] = votes[k]
             /\ DOMAIN discussions' = DOMAIN discussions
             /\ \A e \in DOMAIN discussions : e # d => discussions'[e] = discussions[e]
             /\ IsSucc(Counter(discussions[d], vt), Counter(discussions'[d], vt))
             /\ \A other \in VoteTypes \ {vt} :
                   Counter(discussions'[d], other) = Counter(discussions[d], other)
             /\ users' = users]_vars

\* ---------------------------------------------------------------- C9
\* C9: a successful remove_vote(discussion_id, username) removes exactly the
\* Vote record of that user on that discussion, decreases the counter matching
\* the removed vote's type by exactly one, leaves the other counter, every
\* other discussion, every other vote, the Users table and the id counter
\* unchanged; afterwards the same user can vote on that discussion again.
C9_RemoveVoteEffect ==
    [][last' = Returned("remove_vote", Ok) =>
        \A d \in DiscussionIds, u \in Usernames :
          remove_vote(d, u) =>
             /\ \E k \in DOMAIN votes :
                   /\ votes[k].by = u
                   /\ votes[k].discussion_id = d
                   /\ DOMAIN votes' = DOMAIN votes \ {k}
                   /\ IsSucc(Counter(discussions'[d], votes[k].vote_type),
                             Counter(discussions[d], votes[k].vote_type))
                   /\ \A other \in VoteTypes \ {votes[k].vote_type} :
                         Counter(discussions'[d], other) = Counter(discussions[d], other)
             /\ \A k \in DOMAIN votes' : votes'[k] = votes[k]
             /\ DOMAIN discussions' = DOMAIN discussions
             /\ \A e \in DOMAIN discussions : e # d => discussions'[e] = discussions[e]
             /\ UNCHANGED <<users, id_counter>>
             /\ \A k \in DOMAIN votes' :
                   ~(votes'[k].by = u /\ votes'[k].discussion_id = d)
             /\ \E k \in DOMAIN users' : users'[k].username = u]_vars

\* ---------------------------------------------------------------- C10
\* C10: for every live Vote whose discussion exists, that discussion's counter
\* matching the vote's type is at least 1 (as a u64: it is not 0), so
\* remove_vote never decrements a counter that is 0.
C10_LiveVoteImpliesCounter ==
    \A k \in DOMAIN votes :
        votes[k].discussion_id \in DOMAIN discussions
            => Counter(discussions[votes[k].discussion_id], votes[k].vote_type) # 0

\* ---------------------------------------------------------------- C11
\* C11: a successful delete_user(username) removes the User record and every
\* Vote record with by = username, keeps every Vote record of other users, and
\* leaves upvotes and downvotes of every discussion as they were.
C11_DeleteUserKeepsTallies ==
    [][last' = Returned("delete_user", Ok) =>
        \A u \in Usernames :
           delete_user(u) =>
              /\ \A k \in DOMAIN users' : users'[k].username # u
              /\ \A k \in DOMAIN users :
                    users[k].username # u => (k \in DOMAIN users' /\ users'[k] = users[k])
              /\ \A k \in DOMAIN votes' : k \in DOMAIN votes /\ votes'[k] = votes[k]
              /\ \A k \in DOMAIN votes : (k \in DOMAIN votes') <=> (votes[k].by # u)
              /\ \A d \in DOMAIN discussions :
                    /\ d \in DOMAIN discussions'
                    /\ discussions'[d].upvotes = discussions[d].upvotes
                    /\ discussions'[d].downvotes = discussions[d].downvotes]_vars

\* a user was just deleted; the deleted user's vote is gone but still counted
C11_Witness ==
    /\ last = Returned("delete_user", Ok)
    /\ votes = <<>>
    /\ \E d \in DOMAIN discussions :
          discussions[d].upvotes = 1 /\ discussions[d].downvotes = 0

\* ---------------------------------------------------------------- C12
\* C12: no step removes a discussion; a successful delete_user(username)
\* rewrites created_by to "Anonymous" for exactly the discussions whose
\* created_by was username and leaves id, topic, created_at, upvotes and
\* downvotes of every discussion untouched.
C12_DiscussionsNeverDestroyed ==
    [][/\ \A d \in DOMAIN discussions : d \in DOMAIN discussions'
       /\ last' = Returned("delete_user", Ok) =>
            \A u \in Usernames :
               delete_user(u) =>
                  /\ DOMAIN discussions' = DOMAIN discussions
                  /\ \A d \in DOMAIN discussions :
                        /\ discussions'[d].created_by =
                              IF discussions[d].created_by = u
                              THEN "Anonymous" ELSE discussions[d].created_by
                        /\ discussions'[d].id = discussions[d].id
                        /\ discussions'[d].topic = discussions[d].topic
                        /\ discussions'[d].created_at = discussions[d].created_at
                        /\ discussions'[d].upvotes = discussions[d].upvotes
                        /\ discussions'[d].downvotes = discussions[d].downvotes]_vars

\* alice was just deleted and the discussion she created is still there, anonymized
C12_Witness ==
    /\ last = Returned("delete_user", Ok)
    /\ \E d \in DOMAIN discussions :
          /\ creator[d] = "alice"
          /\ discussions[d].created_by = "Anonymous"
          /\ ~is_user_registered("alice")

\* ---------------------------------------------------------------- C13
\* C13: every live Vote record's discussion_id is the id of a Discussion in
\* the Discussions table.
C13_VotesNameDiscussions ==
    \A k \in DOMAIN votes : votes[k].discussion_id \in DOMAIN discussions

\* ---------------------------------------------------------------- C14
\* C14: vote_discussion with a username that no live User has returns "User is
\* not registered" and changes no table and not the counter, whether or not
\* the discussion exists.
C14_UnregisteredVoteRefused ==
    [][last'.op = "vote_discussion" =>
        \A vt \in VoteTypes, d \in DiscussionIds, u \in Usernames, t \in Times :
           ((\A k \in DOMAIN users : users[k].username # u)
                /\ vote_discussion(vt, d, u, t))
              => (last'.result = ErrNotRegistered /\ UNCHANGED tables)]_vars

\* after a delete_user, with a user and a discussion still there, a vote was
\* just refused for want of registration
C14_Witness ==
    /\ last = Returned("vote_discussion", ErrNotRegistered)
    /\ deleted
    /\ users # <<>>
    /\ discussions # <<>>

\* ---------------------------------------------------------------- C15
\* the empty ledger
ScnEmpty ==
    /\ id_counter = 0
    /\ users = <<>>
    /\ discussions = <<>>
    /\ votes = <<>>

\* the ledger after register_user("alice") on the empty ledger
ScnRegistered ==
    /\ id_counter = 1
    /\ DOMAIN users = {0}
    /\ users[0].username = "alice"
    /\ discussions = <<>>
    /\ votes = <<>>

\* ... after create_discussion(t, "alice"): discussion 1 with counts up, down
ScnDiscussion(created_by, up, down) ==
    /\ DOMAIN discussions = {1}
    /\ discussions[1].id = 1
    /\ discussions[1].topic = "t1"
    /\ discussions[1].created_by = created_by
    /\ Tally(discussions[1]) = <<up, down>>

ScnCreated ==
    /\ id_counter = 2
    /\ DOMAIN users = {0}
    /\ users[0].username = "alice"
    /\ ScnDiscussion("alice", 0, 0)
    /\ votes = <<>>

\* ... after vote_discussion(Upvote, 1, "alice")
ScnVoted ==
    /\ id_counter = 3
    /\ DOMAIN users = {0}
    /\ users[0].username = "alice"
    /\ ScnDiscussion("alice", 1, 0)
    /\ DOMAIN votes = {2}
    /\ votes[2].by = "alice"
    /\ votes[2].discussion_id = 1
    /\ votes[2].vote_type = "Upvote"

\* ... after remove_vote(1, "alice")
ScnUnvoted ==
    /\ id_counter = 3
    /\ DOMAIN users = {0}
    /\ users[0].username = "alice"
    /\ ScnDiscussion("alice", 0, 0)
    /\ votes = <<>>

\* ... after delete_user("alice"): discussion 1 is still listed, anonymized
ScnDeleted ==
    /\ id_counter = 3
    /\ users = <<>>
    /\ ScnDiscussion("Anonymous", 0, 0)
    /\ votes = <<>>
    /\ \E i \in 1..Len(InKeyOrder(discussions)) : InKeyOrder(discussions)[i].id = 1

\* C15: from the empty ledger, register_user("alice") succeeds;
\* create_discussion("t1", "alice") gives discussion 1 with counts (0,0) and
\* created_by alice; vote_discussion(Upvote, 1, "alice") gives tally (1,0); a
\* second such vote returns "User has already voted on this discussion" and the
\* tally stays (1,0); remove_vote(1, "alice") gives tally (0,0);
\* delete_user("alice") succeeds and discussion 1 is still there with
\* created_by = "Anonymous". Each step is stated from the ledger the steps
\* before it produce.
C15_Scenario ==
    [][/\ (/\ id_counter = 0
           /\ last'.op = "register_user"
           /\ \E t \in Times : register_user("alice", t))
             => (last'.result = Ok /\ ScnRegistered')
       /\ (/\ ScnRegistered
           /\ last'.op = "create_discussion"
           /\ \E t \in Times : create_discussion("t1", "alice", t))
             => (last'.result = Ok /\ ScnCreated')
       /\ (/\ ScnCreated
           /\ last'.op = "vote_discussion"
           /\ \E t \in Times : vote_discussion("Upvote", 1, "alice", t))
             => (last'.result = Ok /\ ScnVoted')
       /\ (/\ ScnVoted
           /\ last'.op = "vote_discussion"
           /\ \E t \in Times : vote_discussion("Upvote", 1, "alice", t))
             => (last'.result = ErrAlreadyVoted /\ ScnVoted')
       /\ (/\ ScnVoted
           /\ last'.op = "remove_vote"
           /\ remove_vote(1, "alice"))
             => (last'.result = Ok /\ ScnUnvoted')
       /\ (/\ ScnUnvoted
           /\ last'.op = "delete_user"
           /\ delete_user("alice"))
             => (last'.result = Ok /\ ScnDeleted')]_vars

\* the end of the scenario: alice deleted, her discussion kept and anonymized
C15_Witness ==
    /\ last = Returned("delete_user", Ok)
    /\ ScnDeleted
    /\ creator = (1 :> "alice")
    /\ issued = <<0, 1, 2>>

\* ---------------------------------------------------------------- C16
\* C16: get_vote_count(discussion_id) returns "Discussion not found" exactly
\* when no Discussion has that id, otherwise Ok with the stored (upvotes,
\* downvotes) of that discussion; get_vote_count, get_discussions and get_users
\* change no table and not the counter.
C16_TallyQuery ==
    [][/\ last'.op = "get_vote_count" =>
            \A d \in DiscussionIds :
               get_vote_count(d) =>
                  /\ (last'.result = ErrDiscussionNotFound) <=> (d \notin DOMAIN discussions)
                  /\ d \in DOMAIN discussions =>
                        /\ last'.result = Ok
                        /\ last'.value = <<discussions[d].upvotes, discussions[d].downvotes>>
       /\ last'.op \in {"get_vote_count", "get_discussions", "get_users"} =>
            UNCHANGED tables]_vars

\* the tally of a discussion with one downvote and no upvote was just returned
C16_Witness ==
    /\ last = ReturnedValue("get_vote_count", <<0, 1>>)
    /\ \E k \in DOMAIN votes : votes[k].vote_type = "Downvote"

\* ---------------------------------------------------------------- C17
\* C17: vote_discussion by a registered user with no vote on a discussion id
\* that does not exist returns "Discussion not found", and the new Vote record
\* and the advanced counter stay; remove_vote that finds the vote but not the
\* discussion returns "Discussion not found", and the Vote record stays removed.
C17_NoRollback ==
    [][/\ last'.op = "vote_discussion" =>
            \A vt \in VoteTypes, d \in DiscussionIds, u \in Usernames, t \in Times :
               (/\ \E k \in DOMAIN users : users[k].username = u
                /\ \A k \in DOMAIN votes : ~(votes[k].by = u /\ votes[k].discussion_id = d)
                /\ d \notin DOMAIN discussions
                /\ vote_discussion(vt, d, u, t))
                  => /\ last'.result = ErrDiscussionNotFound
                     /\ id_counter' = id_counter + 1
                     /\ DOMAIN votes' = DOMAIN votes \cup {id_counter}
                     /\ id_counter \notin DOMAIN votes
                     /\ votes'[id_counter].by = u
                     /\ votes'[id_counter].discussion_id = d
                     /\ votes'[id_counter].vote_type = vt
                     /\ \A k \in DOMAIN votes : votes'[k] = votes[k]
       /\ last'.op = "remove_vote" =>
            \A d \in DiscussionIds, u \in Usernames :
               (/\ \E k \in DOMAIN users : users[k].username = u
                /\ \E k \in DOMAIN votes : votes[k].by = u /\ votes[k].discussion_id = d
                /\ d \notin DOMAIN discussions
                /\ remove_vote(d, u))
                  => /\ last'.result = ErrDiscussionNotFound
                     /\ \A k \in DOMAIN votes' :
                           /\ k \in DOMAIN votes
                           /\ votes'[k] = votes[k]
                           /\ ~(votes[k].by = u /\ votes[k].discussion_id = d)
                     /\ Cardinality(DOMAIN votes') = Cardinality(DOMAIN votes) - 1]_vars

\* a vote on a missing discussion was recorded (id 1 consumed) and then taken
\* away again by a remove_vote that also returned "Discussion not found"
C17_Witness ==
    /\ last = Returned("remove_vote", ErrDiscussionNotFound)
    /\ id_counter = 2
    /\ users # <<>>
    /\ votes = <<>>
    /\ discussions = <<>>

\* ---------------------------------------------------------------- C19
KeysAreIds(table) ==
    \A k \in DOMAIN table : table[k].id = k /\ k < id_counter

\* C19: every record of the three tables is stored under the key equal to its
\* id field, and every key is below the id counter (so the next id handed out
\* is the key of no record).
C19_KeysAreIdsBelowCounter ==
    /\ KeysAreIds(users)
    /\ KeysAreIds(discussions)
    /\ KeysAreIds(votes)
    /\ AllocatedId(id_counter) \notin
          DOMAIN users \cup DOMAIN discussions \cup DOMAIN votes

\* all three tables hold a record and a vote was just removed by its id
C19_Witness ==
    /\ last = Returned("remove_vote", Ok)
    /\ users # <<>>
    /\ discussions # <<>>
    /\ votes # <<>>

\* ---------------------------------------------------------------- C20
\* C20: every live Vote's by is the username of a live User, and every
\* Discussion's created_by is the username of a live User or "Anonymous".
C20_NoDanglingUsernames ==
    /\ \A k \in DOMAIN votes : is_user_registered(votes[k].by)
    /\ \A d \in DOMAIN discussions :
          \/ discussions[d].created_by = "Anonymous"
          \/ is_user_registered(discussions[d].created_by)

\* alice was deleted after creating a discussion; another user still has a vote
C20_Witness ==
    /\ last = Returned("delete_user", Ok)
    /\ ~is_user_registered("alice")
    /\ votes # <<>>
    /\ \E d \in DOMAIN discussions : creator[d] = "alice"

\* C18: the writes of the multi-write operations come in this order, so that at
\* every point inside a call (after any prefix of its writes):
\*   vote_discussion: the Vote is only inserted once the id counter has advanced,
\*     and a discussion counter only differs from its value at the call's start
\*     once the call's Vote naming that discussion is in the Votes table (a Vote
\*     without its count may exist, never a count without its Vote);
\*   remove_vote: the discussion counter is only decremented once the Vote record
\*     is gone;
\*   delete_user: Votes are only removed once the User record is gone, created_by
\*     is only rewritten once all of that user's Votes are gone, and while a User
\*     with that username is live neither Votes nor Discussions have changed.
C18_WriteOrder ==
    /\ call.op = "vote_discussion" =>
        (/\ (votes # call.start.votes => id_counter # call.start.id_counter)
          /\ \A d \in DOMAIN discussions :
                (d \notin DOMAIN call.start.discussions
                    \/ discussions[d] # call.start.discussions[d])
                  => \E k \in (DOMAIN votes) \ (DOMAIN call.start.votes) :
                        votes[k].by = call.username /\ votes[k].discussion_id = d)
    /\ call.op = "remove_vote" =>
         (discussions # call.start.discussions
            => \E k \in (DOMAIN call.start.votes) \ (DOMAIN votes) :
                  /\ call.start.votes[k].by = call.username
                  /\ call.start.votes[k].discussion_id \in DOMAIN discussions
                  /\ discussions[call.start.votes[k].discussion_id]
                        # call.start.discussions[call.start.votes[k].discussion_id])
    /\ call.op = "delete_user" =>
        (/\ (votes # call.start.votes => users # call.start.users)
         /\ (discussions # call.start.discussions
                => \A k \in DOMAIN votes : votes[k].by # call.username)
         /\ (\E k \in DOMAIN users : users[k].username = call.username)
                => (votes = call.start.votes /\ discussions = call.start.discussions))

\* inside a vote_discussion call the Vote is in the table and its count is still
\* to be written
C18_Witness ==
    /\ call.op = "vote_discussion"
    /\ call.todo # <<>>
    /\ Head(call.todo).table = "DISCUSSIONS"
    /\ \E k \in (DOMAIN votes) \ (DOMAIN call.start.votes) :
          /\ votes[k].by = call.username
          /\ votes[k].discussion_id \in DOMAIN discussions
    /\ discussions = call.start.discussions

====
